---- MODULE Spec2Model ----
(***************************************************************************)
(* LinAlg::Matrix<T> (include/LinearAlgebra/Matrix.hpp) for T = int.       *)
(*                                                                         *)
(* A matrix object is the record [rows, cols, data] of its three members   *)
(* _rows, _cols and _matrix; data is the std::vector as a sequence, the    *)
(* element at storage offset k being data[k + 1].  std::size_t is an       *)
(* unsigned integer of SizeBits bits.  Every member function is an         *)
(* operator from the receiver (and its arguments) to a result record       *)
(* [err, self, ret]: the exception thrown ("none" when the call returns),  *)
(* the receiver after the call and the value returned.  An access outside  *)
(* the vector's storage is undefined behaviour and reported as             *)
(* err = "undefined"; the actions turn it into the outcomes a build can    *)
(* show.                                                                   *)
(***************************************************************************)
EXTENDS Integers, Sequences, FiniteSets, TLC

\* ---------------------------------------------------------------- bounds
\* Width of std::size_t in bits (scaled down from 64).
SizeBits == 5
\* Largest row / column count the enumerated inputs ask for.
MaxDim == 2
\* Largest magnitude of an element or scalar the enumerated inputs use.
MaxVal == 1
\* Longest flat sequence (and largest storage) the enumerated inputs use.
MaxLen == 4

SizeMod == 2 ^ SizeBits
\* (std::size_t) n for an int n, as the tests pass negative literals.
ToSize(n) == n % SizeMod

Vals == (0 - MaxVal) .. MaxVal
Dims == 0 .. MaxDim
Objs == {"a", "b"}

\* ------------------------------------------------------- results of calls
Mat(r, c, d) == [rows |-> r, cols |-> c, data |-> d]
Ok(self, ret) == [err |-> "none", self |-> self, ret |-> ret]
Throw(e, self) == [err |-> e, self |-> self, ret |-> 0]
\* Undefined behaviour: an access outside the storage of _matrix.
Undefined(self) == [err |-> "undefined", self |-> self, ret |-> 0]

Zeros(n) == [i \in 1 .. n |-> 0]

\* The one element of a singleton: The({e(x) : x \in {call}}) is e of the
\* result of a nested call made once.
The(S) == CHOOSE x \in S : TRUE

\* ------------------------------------------------------------ queries
rows(M) == M.rows
cols(M) == M.cols
vector_size(M) == Len(M.data)
\* std::vector<T>::max_size(): PTRDIFF_MAX / sizeof(T) for a one-byte T.
max_rows == 2 ^ (SizeBits - 1) - 1
square(M) == M.rows = M.cols

\* operator()(row, col): unchecked, the caller keeps the offset in range.
Elem(M, row, col) == M.data[row * M.cols + col + 1]

\* ---------------------------------------------------- argument checks
check_rows_arg(rws) == IF rws < max_rows THEN "none" ELSE "invalid_argument"

\* A faulty variant: cols == 0 passes for rows > 0.
check_cols_arg_zero_ok(_rows, cls) ==
    IF _rows # 0
    THEN IF cls < (max_rows \div _rows) THEN "none" ELSE "invalid_argument"
    ELSE IF cls = 0 THEN "none" ELSE "invalid_argument"

\* _rows is the member already initialised from check_rows_arg.
check_cols_arg(_rows, cls) ==
    IF _rows # 0
    THEN IF cls < (max_rows \div _rows) /\ cls > 0
         THEN "none" ELSE "invalid_argument"
    ELSE IF cls = 0 THEN "none" ELSE "invalid_argument"

\* T = int is arithmetic and not const: the size is passed through.
check_template_arg(size) == size

\* ------------------------------------------------------- constructors
Matrix_default == Ok(Mat(0, 0, Zeros(check_template_arg(0))), 0)

Matrix_rows_cols(rws, cls) ==
    IF check_rows_arg(rws) # "none" THEN Throw("invalid_argument", Mat(0, 0, <<>>))
    ELSE IF check_cols_arg(rws, cls) # "none"
    THEN Throw("invalid_argument", Mat(0, 0, <<>>))
    ELSE Ok(Mat(rws, cls, Zeros(check_template_arg(ToSize(rws * cls)))), 0)

Matrix_value(rws, cls, value) ==
    LET base == Matrix_rows_cols(rws, cls)
    IN  IF base.err # "none" THEN base
        ELSE Ok([base.self EXCEPT !.data = [i \in 1 .. vector_size(base.self) |-> value]], 0)

\* A faulty variant: a longer v is cut to the storage instead of rejected.
Matrix_vector_truncating(rws, cls, v) ==
    LET base == Matrix_rows_cols(rws, cls)
    IN  IF base.err # "none" THEN base
        ELSE IF Len(v) < vector_size(base.self)
        THEN Throw("invalid_argument", Mat(0, 0, <<>>))
        ELSE Ok([base.self EXCEPT !.data = SubSeq(v, 1, vector_size(base.self))], 0)

Matrix_vector(rws, cls, v) ==
    LET base == Matrix_rows_cols(rws, cls)
    IN  IF base.err # "none" THEN base
        ELSE IF Len(v) # vector_size(base.self)
        THEN Throw("invalid_argument", Mat(0, 0, <<>>))
        ELSE Ok([base.self EXCEPT !.data = v], 0)

\* A faulty variant of the loop: the last row's length goes unchecked.
RECURSIVE il_loop_skip_last(_, _, _, _)
il_loop_skip_last(il, _cols, i, acc) ==
    IF i > Len(il) THEN [err |-> "none", data |-> acc]
    ELSE IF i < Len(il) /\ _cols # Len(il[i]) THEN [err |-> "invalid_argument", data |-> acc]
    ELSE il_loop_skip_last(il, _cols, i + 1, acc \o il[i])

\* The loop of the nested-list constructor from row i on, acc the storage so far.
RECURSIVE il_loop(_, _, _, _)
il_loop(il, _cols, i, acc) ==
    IF i > Len(il) THEN [err |-> "none", data |-> acc]
    ELSE IF _cols # Len(il[i]) THEN [err |-> "invalid_argument", data |-> acc]
    ELSE il_loop(il, _cols, i + 1, acc \o il[i])

\* il.begin()->size() of an empty list reads past the list: undefined.
Matrix_il(il) ==
    IF Len(il) = 0 THEN Undefined(Mat(0, 0, <<>>))
    ELSE LET _rows == Len(il)
             _cols == Len(il[1])
             body == il_loop(il, _cols, 1, <<>>)
         IN  IF body.err # "none" THEN Throw(body.err, Mat(0, 0, <<>>))
             ELSE Ok(Mat(_rows, _cols, body.data), 0)

\* --------------------------------------------------- copy and move
Empty == Mat(0, 0, <<>>)

\* Matrix(const Matrix&) = default: memberwise copy, the vector deep-copied.
Matrix_copy(other) == [self |-> other, other |-> other]

\* A faulty variant: the source keeps its shape after its vector is moved out.
Matrix_move_keeps_shape(other) ==
    [self |-> Mat(other.rows, other.cols, other.data),
     other |-> Mat(other.rows, other.cols, <<>>)]

\* Matrix(Matrix&&): the vector is moved out and the source's shape zeroed.
Matrix_move(other) == [self |-> Mat(other.rows, other.cols, other.data), other |-> Empty]

\* A faulty variant: the shape is copied, the elements are not.
operator_assign_copy_shape_only(M, other) ==
    [self |-> Mat(other.rows, other.cols, Zeros(Len(other.data))), other |-> other]

\* operator=(const Matrix&) = default.
operator_assign_copy(M, other) == [self |-> other, other |-> other]

\* A faulty variant: move assignment as a swap, the source left with the
\* destination's old contents.
operator_assign_move_by_swap(M, other, aliased) == [self |-> other, other |-> M]

\* operator=(Matrix&&); aliased is (this == &other).
operator_assign_move(M, other, aliased) ==
    IF ~aliased
    THEN [self |-> Mat(other.rows, other.cols, other.data), other |-> Empty]
    ELSE [self |-> M, other |-> M]

\* ------------------------------------------------ scalar arithmetic
\* T = int: operator/ truncates toward zero.
CDiv(x, y) ==
    LET ax == IF x < 0 THEN 0 - x ELSE x
        ay == IF y < 0 THEN 0 - y ELSE y
    IN  IF (x < 0) = (y < 0) THEN ax \div ay ELSE 0 - (ax \div ay)

\* for (T& element : _matrix) { element *= value; } and element /= value.
Scaled(M, value) == [M EXCEPT !.data = [k \in 1 .. Len(M.data) |-> M.data[k] * value]]
Divided(M, value) == [M EXCEPT !.data = [k \in 1 .. Len(M.data) |-> CDiv(M.data[k], value)]]

operator_mul_value(M, value) == Ok(M, Scaled(M, value))

operator_div_value(M, value) ==
    IF value = 0 THEN Throw("invalid_argument", M) ELSE Ok(M, Divided(M, value))

\* A faulty variant: the loop stops one element short of the end.
operator_mul_assign_value_short(M, value) ==
    LET scaled == [M EXCEPT !.data = [k \in 1 .. Len(M.data) |->
                       IF k < Len(M.data) THEN M.data[k] * value ELSE M.data[k]]]
    IN  Ok(scaled, scaled)

operator_mul_assign_value(M, value) == Ok(Scaled(M, value), Scaled(M, value))

\* A faulty variant: the divisor is tested per element, so never for an
\* empty matrix.
operator_div_assign_value_per_element(M, value) ==
    IF value = 0 /\ Len(M.data) > 0 THEN Throw("invalid_argument", M)
    ELSE Ok(Divided(M, value), Divided(M, value))

operator_div_assign_value(M, value) ==
    IF value = 0 THEN Throw("invalid_argument", M)
    ELSE Ok(Divided(M, value), Divided(M, value))

operator_neg(M) == operator_mul_value(M, 0 - 1)

\* ------------------------------------------------------ checked access
\* A variant with the strict bound: row == _rows and col == _cols rejected.
at_strict(M, row, col) ==
    IF row < 0 \/ col < 0 \/ M.rows <= row \/ M.cols <= col
    THEN Throw("out_of_range", M)
    ELSE LET off == ToSize(row * M.cols + col)
         IN  IF off < Len(M.data) THEN Ok(M, M.data[off + 1]) ELSE Undefined(M)

\* row and col are std::size_t, so row < 0 and col < 0 never hold.
at(M, row, col) ==
    IF row < 0 \/ col < 0 \/ M.rows < row \/ M.cols < col
    THEN Throw("out_of_range", M)
    ELSE LET off == ToSize(row * M.cols + col)
         IN  IF off < Len(M.data) THEN Ok(M, M.data[off + 1]) ELSE Undefined(M)

\* at(row, col) = value, through the reference the mutable at returns.
at_assign(M, row, col, value) ==
    LET ref == at(M, row, col)
    IN  IF ref.err # "none" THEN ref
        ELSE Ok([M EXCEPT !.data[ToSize(row * M.cols + col) + 1] = value], value)

\* The matrix of shape r x c whose cell (i, j) is cells[i, j], in row-major
\* order.
FromCells(r, c, cells) ==
    Mat(r, c, [k \in 1 .. r * c |-> cells[(k - 1) \div c, (k - 1) % c]])

\* ------------------------------------------------ matrix arithmetic
operator_add(M, other) ==
    IF M.rows # other.rows \/ M.cols # other.cols THEN Throw("invalid_argument", M)
    ELSE LET cell == [i \in 0 .. M.rows - 1, j \in 0 .. M.cols - 1 |->
                          at(M, i, j).ret + at(other, i, j).ret]
         IN  Ok(M, FromCells(M.rows, M.cols, cell))

\* A faulty variant: the copy of the operand is added without being negated.
operator_sub_unnegated(M, other) ==
    LET tempMatrix == Matrix_copy(other).self
    IN  operator_add(M, tempMatrix)

operator_sub(M, other) ==
    LET tempMatrix == Matrix_copy(other).self
    IN  operator_add(M, operator_neg(tempMatrix).ret)

RECURSIVE dot(_, _, _, _, _)
dot(M, other, i, j, k) ==
    IF k = 0 THEN 0
    ELSE dot(M, other, i, j, k - 1) + at(M, i, k - 1).ret * at(other, k - 1, j).ret

operator_mul(M, other) ==
    IF M.cols # other.rows THEN Throw("invalid_argument", M)
    ELSE LET resultMatrix == Matrix_rows_cols(M.rows, other.cols)
             cell == [i \in 0 .. M.rows - 1, j \in 0 .. other.cols - 1 |->
                          dot(M, other, i, j, M.cols)]
         IN  IF resultMatrix.err # "none" THEN Throw(resultMatrix.err, M)
             ELSE Ok(M, FromCells(M.rows, other.cols, cell))

\* ------------------------------------------------ structural editing
\* A faulty variant: the diagonal is stepped by _rows instead of _rows + 1.
set_identity_stride(M) ==
    IF ~square(M) THEN Throw("invalid_argument", M)
    ELSE LET identityVector ==
                 [k \in 1 .. vector_size(M) |->
                      IF M.rows = 0 \/ (k - 1) % M.rows = 0 THEN 1 ELSE 0]
             built == Matrix_vector(M.rows, M.cols, identityVector)
         IN  IF built.err # "none" THEN Throw(built.err, M) ELSE Ok(built.self, 0)

set_identity(M) ==
    IF ~square(M) THEN Throw("invalid_argument", M)
    ELSE LET identityVector ==
                 [k \in 1 .. vector_size(M) |-> IF (k - 1) % (M.rows + 1) = 0 THEN 1 ELSE 0]
             built == Matrix_vector(M.rows, M.cols, identityVector)
         IN  IF built.err # "none" THEN Throw(built.err, M) ELSE Ok(built.self, 0)

set_zero(M) ==
    LET built == Matrix_rows_cols(M.rows, M.cols)
    IN  IF built.err # "none" THEN Throw(built.err, M) ELSE Ok(built.self, 0)

\* After set_zero: _matrix[i] = v[j] for i = 0, _rows + 1, 2 (_rows + 1), ...
diag_fill(M, v) ==
    [M EXCEPT !.data = [k \in 1 .. Len(M.data) |->
        IF (k - 1) % (M.rows + 1) = 0 THEN v[(k - 1) \div (M.rows + 1) + 1] ELSE @[k]]]

\* A faulty variant: the matrix is zeroed before the length of v is tested.
set_diag_vector_zero_first(M, v) ==
    IF ~square(M) THEN Throw("invalid_argument", M)
    ELSE IF Len(v) # M.rows THEN Throw("invalid_argument", set_zero(M).self)
    ELSE Ok(diag_fill(set_zero(M).self, v), 0)

\* A faulty variant: only a v shorter than the diagonal is rejected.
set_diag_vector_longer_ok(M, v) ==
    IF ~square(M) THEN Throw("invalid_argument", M)
    ELSE IF Len(v) < M.rows THEN Throw("invalid_argument", M)
    ELSE LET zeroed == set_zero(M)
         IN  IF zeroed.err # "none" THEN zeroed ELSE Ok(diag_fill(zeroed.self, v), 0)

set_diag_vector(M, v) ==
    IF ~square(M) THEN Throw("invalid_argument", M)
    ELSE IF Len(v) # M.rows THEN Throw("invalid_argument", M)
    ELSE LET zeroed == set_zero(M)
         IN  IF zeroed.err # "none" THEN zeroed ELSE Ok(diag_fill(zeroed.self, v), 0)

set_diag_il(M, il) ==
    IF ~square(M) THEN Throw("invalid_argument", M)
    ELSE IF Len(il) # M.rows THEN Throw("invalid_argument", M)
    ELSE LET zeroed == set_zero(M)
         IN  IF zeroed.err # "none" THEN zeroed ELSE Ok(diag_fill(zeroed.self, il), 0)

Range(s) == {s[t] : t \in 1 .. Len(s)}
IndexOf(s, e) == CHOOSE t \in 1 .. Len(s) : s[t] = e

\* Offsets row * _cols .. (row + 1) * _cols - 1, the loop over one row.
row_offsets(M, row) == [t \in 1 .. M.cols |-> row * M.cols + t - 1]

\* for (i = col; i < (_rows - 1) * _cols + col + 1; i += _cols) in std::size_t
\* arithmetic: the offsets visited, and whether one falls outside the storage.
col_upper(M, col) == ToSize((M.rows - 1) * M.cols + col + 1)

RECURSIVE col_walk(_, _, _, _)
col_walk(M, i, upper, acc) ==
    IF ~(i < upper) THEN [oob |-> FALSE, offs |-> acc]
    ELSE IF ~(i < Len(M.data)) THEN [oob |-> TRUE, offs |-> acc]
    ELSE col_walk(M, ToSize(i + M.cols), upper, Append(acc, i))

\* for (i = col, j = 0; j < _rows; i += _cols, ++j)
col_offsets(M, col) == [t \in 1 .. M.rows |-> col + (t - 1) * M.cols]

\* _matrix with vals[t] written at the t-th offset of offs, and the values
\* read at the offsets offs.
WriteAt(M, offs, vals) ==
    [M EXCEPT !.data = [k \in 1 .. Len(M.data) |->
        IF (k - 1) \in Range(offs) THEN vals[IndexOf(offs, k - 1)] ELSE @[k]]]
ReadAt(M, offs) == [t \in 1 .. Len(offs) |-> M.data[offs[t] + 1]]
Repeat(n, value) == [t \in 1 .. n |-> value]

set_row_value(M, row, value) ==
    IF row < 0 \/ row >= M.rows THEN Throw("out_of_range", M)
    ELSE Ok(WriteAt(M, row_offsets(M, row), Repeat(M.cols, value)), 0)

set_row_vector(M, row, v) ==
    IF Len(v) # M.cols THEN Throw("invalid_argument", M)
    ELSE IF row < 0 \/ row >= M.rows THEN Throw("out_of_range", M)
    ELSE Ok(WriteAt(M, row_offsets(M, row), v), 0)

set_row_il(M, row, il) ==
    IF Len(il) # M.cols THEN Throw("invalid_argument", M)
    ELSE IF row < 0 \/ row >= M.rows THEN Throw("out_of_range", M)
    ELSE Ok(WriteAt(M, row_offsets(M, row), il), 0)

set_col_value(M, col, value) ==
    LET walk == col_walk(M, col, col_upper(M, col), <<>>)
    IN  IF col < 0 \/ col >= M.cols THEN Throw("out_of_range", M)
        ELSE IF walk.oob THEN Undefined(M)
        ELSE Ok(WriteAt(M, walk.offs, Repeat(Len(walk.offs), value)), 0)

set_col_vector(M, col, v) ==
    IF Len(v) # M.rows THEN Throw("invalid_argument", M)
    ELSE IF col < 0 \/ col >= M.cols THEN Throw("out_of_range", M)
    ELSE Ok(WriteAt(M, col_offsets(M, col), v), 0)

set_col_il(M, col, il) ==
    LET walk == col_walk(M, col, col_upper(M, col), <<>>)
    IN  IF Len(il) # M.rows THEN Throw("invalid_argument", M)
        ELSE IF col < 0 \/ col >= M.cols THEN Throw("out_of_range", M)
        ELSE IF walk.oob THEN Undefined(M)
        ELSE Ok(WriteAt(M, walk.offs, il), 0)

get_row(M, row) ==
    IF row < 0 \/ row >= M.rows THEN Throw("out_of_range", M)
    ELSE Ok(M, [t \in 1 .. M.cols |-> M.data[row_offsets(M, row)[t] + 1]])

get_col(M, col) ==
    IF col < 0 \/ col >= M.cols THEN Throw("out_of_range", M)
    ELSE Ok(M, [t \in 1 .. M.rows |-> M.data[col_offsets(M, col)[t] + 1]])

\* A faulty variant: the source offset is i + j * _cols, with the new _cols.
transpose_cols_stride(M) ==
    LET nr == M.cols
        nc == M.rows
        cell(i, j) == M.data[((i + j * nc) % vector_size(M)) + 1]
    IN  Ok(Mat(nr, nc, [k \in 1 .. vector_size(M) |-> cell((k - 1) \div nc, (k - 1) % nc)]), 0)

\* std::swap(_rows, _cols), then tempVector[counter++] = _matrix[i + j * _rows].
transpose(M) ==
    LET nr == M.cols
        nc == M.rows
        cell(i, j) == M.data[i + j * nr + 1]
    IN  Ok(Mat(nr, nc, [k \in 1 .. vector_size(M) |-> cell((k - 1) \div nc, (k - 1) % nc)]), 0)

swap_row(M, lhsRow, rhsRow) ==
    LET lo == row_offsets(M, lhsRow)
        ro == row_offsets(M, rhsRow)
    IN  IF (lhsRow < 0 \/ lhsRow >= M.rows) \/ (rhsRow < 0 \/ rhsRow >= M.rows)
        THEN Throw("out_of_range", M)
        ELSE IF lhsRow # rhsRow
        THEN Ok(WriteAt(WriteAt(M, lo, ReadAt(M, ro)), ro, ReadAt(M, lo)), 0)
        ELSE Ok(M, 0)

swap_col(M, lhsCol, rhsCol) ==
    LET walk == col_walk(M, lhsCol, col_upper(M, lhsCol), <<>>)
        ro == [t \in 1 .. Len(walk.offs) |-> walk.offs[t] - lhsCol + rhsCol]
    IN  IF (lhsCol < 0 \/ lhsCol >= M.cols) \/ (rhsCol < 0 \/ rhsCol >= M.cols)
        THEN Throw("out_of_range", M)
        ELSE IF lhsCol # rhsCol
        THEN IF walk.oob THEN Undefined(M)
             ELSE Ok(WriteAt(WriteAt(M, walk.offs, ReadAt(M, ro)), ro, ReadAt(M, walk.offs)), 0)
        ELSE Ok(M, 0)

mult_row(M, row, value) ==
    LET offs == row_offsets(M, row)
    IN  IF row < 0 \/ row >= M.rows THEN Throw("out_of_range", M)
        ELSE Ok(WriteAt(M, offs, [t \in 1 .. Len(offs) |-> ReadAt(M, offs)[t] * value]), 0)

mult_col(M, col, value) ==
    LET walk == col_walk(M, col, col_upper(M, col), <<>>)
    IN  IF col < 0 \/ col >= M.cols THEN Throw("out_of_range", M)
        ELSE IF walk.oob THEN Undefined(M)
        ELSE Ok(WriteAt(M, walk.offs,
                        [t \in 1 .. Len(walk.offs) |-> ReadAt(M, walk.offs)[t] * value]), 0)

add_row(M, lhsRow, rhsRow, value) ==
    LET lo == row_offsets(M, lhsRow)
        ro == row_offsets(M, rhsRow)
    IN  IF (lhsRow < 0 \/ lhsRow >= M.rows) \/ (rhsRow < 0 \/ rhsRow >= M.rows)
        THEN Throw("out_of_range", M)
        ELSE IF value # 0
        THEN IF lhsRow = rhsRow THEN mult_row(M, lhsRow, value + 1)
             ELSE Ok(WriteAt(M, lo, [t \in 1 .. Len(lo) |->
                                        ReadAt(M, lo)[t] + value * ReadAt(M, ro)[t]]), 0)
        ELSE Ok(M, 0)

add_col(M, lhsCol, rhsCol, value) ==
    LET walk == col_walk(M, lhsCol, col_upper(M, lhsCol), <<>>)
        ro == [t \in 1 .. Len(walk.offs) |-> walk.offs[t] - lhsCol + rhsCol]
    IN  IF (lhsCol < 0 \/ lhsCol >= M.cols) \/ (rhsCol < 0 \/ rhsCol >= M.cols)
        THEN Throw("out_of_range", M)
        ELSE IF value # 0
        THEN IF lhsCol = rhsCol THEN mult_col(M, lhsCol, value + 1)
             ELSE IF walk.oob THEN Undefined(M)
             ELSE Ok(WriteAt(M, walk.offs, [t \in 1 .. Len(walk.offs) |->
                        ReadAt(M, walk.offs)[t] + value * ReadAt(M, ro)[t]]), 0)
        ELSE Ok(M, 0)

\* --------------------------------------------- linear-algebra derivations
\* tempVector of minor: at(i, j) for i != row, j != col, offsets k .. size - 1.
RECURSIVE minor_vec(_, _, _, _)
minor_vec(M, row, col, k) ==
    IF k >= M.rows * M.cols THEN <<>>
    ELSE LET i == k \div M.cols
             j == k % M.cols
         IN  (IF i # row /\ j # col THEN <<at(M, i, j).ret>> ELSE <<>>)
                 \o minor_vec(M, row, col, k + 1)

minor(M, row, col) ==
    IF ~square(M) THEN Throw("invalid_argument", M)
    ELSE IF row < 0 \/ row >= M.rows THEN Throw("out_of_range", M)
    ELSE IF col < 0 \/ col >= M.cols THEN Throw("out_of_range", M)
    ELSE LET built == Matrix_vector(ToSize(M.rows - 1), ToSize(M.cols - 1),
                                    minor_vec(M, row, col, 0))
         IN  IF built.err # "none" THEN Throw(built.err, M) ELSE Ok(M, built.self)

\* A faulty variant: the sign of the cofactor is dropped.
pow_minus_one_unsigned(n) == 1

\* std::pow(-1, n) for the n = row + col of cofactor.
pow_minus_one(n) == IF n % 2 = 0 THEN 1 ELSE 0 - 1

RECURSIVE determinant(_)
RECURSIVE cofactor(_, _, _)
RECURSIVE laplace(_, _)

cofactor(M, row, col) ==
    The({IF sub.err # "none" THEN Throw(sub.err, M)
         ELSE The({IF det.err # "none" THEN Throw(det.err, M)
                   ELSE Ok(M, pow_minus_one(row + col) * det.ret)
                   : det \in {determinant(sub.ret)}})
         : sub \in {minor(M, row, col)}})

\* totalDeterminant after the columns 0 .. n - 1 of the first row.
laplace(M, n) ==
    IF n = 0 THEN 0
    ELSE laplace(M, n - 1) + M.data[n] * cofactor(M, 0, n - 1).ret

determinant(M) ==
    IF ~square(M) THEN Throw("invalid_argument", M)
    ELSE IF M.rows = 1 THEN Ok(M, at(M, 0, 0).ret)
    ELSE IF M.rows = 2
    THEN Ok(M, at(M, 0, 0).ret * at(M, 1, 1).ret - at(M, 0, 1).ret * at(M, 1, 0).ret)
    ELSE Ok(M, laplace(M, M.cols))

\* A faulty variant: the cofactor matrix of the general branch is returned
\* without being transposed.
adjoint_untransposed(M) ==
    IF ~square(M) THEN Throw("invalid_argument", M)
    ELSE IF M.rows = 1 THEN Ok(M, Matrix_il(<< <<1>> >>).self)
    ELSE IF M.rows = 2
    THEN Ok(M, Matrix_il(<< <<at(M, 1, 1).ret, 0 - at(M, 0, 1).ret>>,
                            <<0 - at(M, 1, 0).ret, at(M, 0, 0).ret>> >>).self)
    ELSE LET adjointMatrix == Matrix_rows_cols(M.rows, M.cols)
             cell == [i \in 0 .. M.rows - 1, j \in 0 .. M.cols - 1 |-> cofactor(M, i, j).ret]
         IN  IF adjointMatrix.err # "none" THEN Throw(adjointMatrix.err, M)
             ELSE Ok(M, FromCells(M.rows, M.cols, cell))

adjoint(M) ==
    IF ~square(M) THEN Throw("invalid_argument", M)
    ELSE IF M.rows = 1 THEN Ok(M, Matrix_il(<< <<1>> >>).self)
    ELSE IF M.rows = 2
    THEN Ok(M, Matrix_il(<< <<at(M, 1, 1).ret, 0 - at(M, 0, 1).ret>>,
                            <<0 - at(M, 1, 0).ret, at(M, 0, 0).ret>> >>).self)
    ELSE LET adjointMatrix == Matrix_rows_cols(M.rows, M.cols)
             cell == [i \in 0 .. M.rows - 1, j \in 0 .. M.cols - 1 |-> cofactor(M, i, j).ret]
         IN  IF adjointMatrix.err # "none" THEN Throw(adjointMatrix.err, M)
             ELSE Ok(M, transpose(FromCells(M.rows, M.cols, cell)).self)

\* A faulty variant: the adjoint is returned without the division.
inverse_undivided(M) ==
    IF ~square(M) THEN Throw("invalid_argument", M)
    ELSE IF determinant(M).ret = 0 THEN Throw("runtime_error", M)
    ELSE The({IF adj.err # "none" THEN Throw(adj.err, M) ELSE Ok(M, adj.ret)
              : adj \in {adjoint(M)}})

inverse(M) ==
    IF ~square(M) THEN Throw("invalid_argument", M)
    ELSE IF determinant(M).ret = 0 THEN Throw("runtime_error", M)
    ELSE The({IF adj.err # "none" THEN Throw(adj.err, M)
              ELSE Ok(M, operator_div_value(adj.ret, determinant(M).ret).ret)
              : adj \in {adjoint(M)}})

operator_div(M, other) ==
    LET tempMatrix == Matrix_copy(other).self
    IN  The({IF inv.err # "none" THEN Throw(inv.err, M) ELSE operator_mul(M, inv.ret)
             : inv \in {inverse(tempMatrix)}})

\* ------------------------------------------------ compound assignment
\* *this = <temporary>: the move assignment from a distinct object.
assign_result(M, r) ==
    IF r.err # "none" THEN Throw(r.err, M)
    ELSE Ok(operator_assign_move(M, r.ret, FALSE).self, r.ret)

operator_add_assign(M, other) == assign_result(M, operator_add(M, other))
operator_sub_assign(M, other) == assign_result(M, operator_sub(M, other))
operator_mul_assign(M, other) == assign_result(M, operator_mul(M, other))
operator_div_assign(M, other) == assign_result(M, operator_div(M, other))

\* ---------------------------------------------------------------- pow
Abs(n) == IF n < 0 THEN 0 - n ELSE n

\* for (int i = 1; i < power; ++i) resultMatrix *= *this;
RECURSIVE pow_pos(_, _, _, _)
pow_pos(M, resultMatrix, i, power) ==
    IF ~(i < power) THEN Ok(resultMatrix, 0)
    ELSE The({IF step.err # "none" THEN Throw(step.err, M)
              ELSE pow_pos(M, step.self, i + 1, power)
              : step \in {operator_mul_assign(resultMatrix, M)}})

\* for (int i = 1; i < std::abs(power); ++i) resultMatrix *= inverse();
RECURSIVE pow_neg(_, _, _, _)
pow_neg(M, resultMatrix, i, power) ==
    IF ~(i < Abs(power)) THEN Ok(resultMatrix, 0)
    ELSE The({IF inv.err # "none" THEN Throw(inv.err, M)
              ELSE The({IF step.err # "none" THEN Throw(step.err, M)
                        ELSE pow_neg(M, step.self, i + 1, power)
                        : step \in {operator_mul_assign(resultMatrix, inv.ret)}})
              : inv \in {inverse(M)}})

\* A faulty variant: the loop of a positive power starts at 0, one
\* multiplication too many.
pow_from_zero(M, power) ==
    IF ~square(M) THEN Throw("invalid_argument", M)
    ELSE IF power = 0 THEN set_identity(M)
    ELSE IF power > 0 THEN pow_pos(M, Matrix_copy(M).self, 0, power)
    ELSE The({IF first.err # "none" THEN Throw(first.err, M)
              ELSE pow_neg(M, first.ret, 1, power)
              : first \in {inverse(M)}})

pow(M, power) ==
    IF ~square(M) THEN Throw("invalid_argument", M)
    ELSE IF power = 0 THEN set_identity(M)
    ELSE IF power > 0 THEN pow_pos(M, Matrix_copy(M).self, 1, power)
    ELSE The({IF first.err # "none" THEN Throw(first.err, M)
              ELSE pow_neg(M, first.ret, 1, power)
              : first \in {inverse(M)}})

\* ------------------------------------------------------------ equality
\* T = int is not IEC 559: exact comparison.
areEqual(value1, value2) == value1 = value2

\* aliased is (&lhs == &rhs).
operator_eq(lhs, rhs, aliased) ==
    IF aliased THEN TRUE
    ELSE IF lhs.rows # rhs.rows \/ lhs.cols # rhs.cols THEN FALSE
    ELSE \A i \in 0 .. lhs.rows - 1 : \A j \in 0 .. lhs.cols - 1 :
             areEqual(at(lhs, i, j).ret, at(rhs, i, j).ret)

\* max_rows() / _rows: the division is undefined for _rows == 0.
max_cols(M) == IF M.rows = 0 THEN Undefined(M) ELSE Ok(M, max_rows \div M.rows)

\* ======================================================== state machine
\* m[x]: the matrix object named x.  last: the latest call, its receiver x,
\* its other operand y ("-" when it has none, "tmp" for a temporary) and the
\* exception it threw; err = "crash" after undefined behaviour ended the
\* program.  call: the arguments and the outcome of the one call of a
\* single-call specification.
VARIABLES m, last, call

vars == <<m, last, call>>

\* ------------------------------------------------------ enumerated inputs
\* Elements and scalars of the object machines: 0 .. MaxVal; sizes and
\* indices: 0 .. MaxDim and -1 converted to std::size_t.
NatVals == 0 .. MaxVal
NatArgs == Dims \cup {SizeMod - 1}
Powers == (0 - 2) .. 2
NatVecs == UNION {[1 .. n -> NatVals] : n \in 0 .. MaxLen}
NatLines == UNION {[1 .. n -> NatVals] : n \in 0 .. MaxDim}
NatLists == UNION {[1 .. n -> NatLines] : n \in 1 .. MaxDim}
\* The temporaries an expression can hand to an operation: Matrix<int>() and
\* Matrix<int>(il) for the nested lists that construct.
Temps == {Matrix_default.self} \cup {Matrix_il(il).self : il \in {l \in NatLists : Matrix_il(l).err = "none"}}

InBounds(M) ==
    /\ M.rows <= MaxDim /\ M.cols <= MaxDim /\ Len(M.data) <= MaxLen
    /\ \A k \in 1 .. Len(M.data) : M.data[k] \in NatVals

NoCall == [op |-> "none"]
Running == last.err # "crash"
Log(op, x, y, err) == [op |-> op, x |-> x, y |-> y, err |-> err]

Init ==
    /\ m = [x \in Objs |-> Matrix_default.self]
    /\ last = Log("Matrix_default", "a", "-", "none")
    /\ call = NoCall

\* Matrix x(...): x names the object the constructor call res builds.
Construct(op, x, res) ==
    /\ Running
    /\ res.err # "undefined"
    /\ res.err = "none" => InBounds(res.self)
    /\ m' = [m EXCEPT ![x] = IF res.err = "none" THEN res.self ELSE @]
    /\ last' = Log(op, x, "-", res.err)
    /\ UNCHANGED call

\* x.f(...): res is the result of the member call on m[x].
Member(op, x, y, res) ==
    /\ Running
    /\ IF res.err = "undefined"
       THEN m' = m /\ last' = Log(op, x, y, "crash")
       ELSE /\ InBounds(res.self)
            /\ m' = [m EXCEPT ![x] = res.self]
            /\ last' = Log(op, x, y, res.err)
    /\ UNCHANGED call

\* x = x.f(...): the temporary a binary operator returns, move-assigned to x.
Store(op, x, y, res) ==
    /\ Running
    /\ res.err # "undefined"
    /\ res.err = "none" => InBounds(res.ret)
    /\ m' = [m EXCEPT ![x] = IF res.err = "none"
                             THEN operator_assign_move(@, res.ret, FALSE).self ELSE @]
    /\ last' = Log(op, x, y, res.err)
    /\ UNCHANGED call

\* ------------------------------------------------------- construction
NewDefault(x) == Construct("Matrix_default", x, Matrix_default)

NewSized(x) ==
    \E r \in NatArgs, c \in NatArgs : Construct("Matrix_rows_cols", x, Matrix_rows_cols(r, c))

NewFilled(x) ==
    \E r \in Dims, c \in Dims, v \in NatVals :
        Construct("Matrix_value", x, Matrix_value(r, c, v))

NewFromVector(x) ==
    \E r \in Dims, c \in Dims, v \in NatVecs :
        /\ Len(v) \in {r * c, r * c + 1}
        /\ Construct("Matrix_vector", x, Matrix_vector(r, c, v))

NewFromList(x) ==
    \E il \in NatLists : Construct("Matrix_il", x, Matrix_il(il))

\* The empty outer list: _cols is read from outside the list.  The build
\* either faults or goes on with whatever value was read.
NewFromEmptyList(x) ==
    /\ Running
    /\ Matrix_il(<<>>).err = "undefined"
    /\ \/ m' = m /\ last' = Log("Matrix_il", x, "-", "crash")
       \/ \E g \in Dims :
            /\ m' = [m EXCEPT ![x] = Mat(0, g, <<>>)]
            /\ last' = Log("Matrix_il", x, "-", "none")
    /\ UNCHANGED call

\* Matrix x(y);
NewCopy(x, y) ==
    /\ Running /\ x # y
    /\ m' = [m EXCEPT ![x] = Matrix_copy(m[y]).self]
    /\ last' = Log("Matrix_copy", x, y, "none")
    /\ UNCHANGED call

\* Matrix x(std::move(y));
NewMove(x, y) ==
    /\ Running /\ x # y
    /\ m' = [m EXCEPT ![x] = Matrix_move(m[y]).self, ![y] = Matrix_move(m[y]).other]
    /\ last' = Log("Matrix_move", x, y, "none")
    /\ UNCHANGED call

\* x = y;
AssignCopy(x, y) ==
    /\ Running
    /\ m' = [m EXCEPT ![x] = operator_assign_copy(m[x], m[y]).self]
    /\ last' = Log("operator_assign_copy", x, y, "none")
    /\ UNCHANGED call

\* x = std::move(y);
AssignMove(x, y) ==
    /\ Running
    /\ LET r == operator_assign_move(m[x], m[y], x = y)
       IN  m' = [z \in Objs |-> IF z = x THEN r.self ELSE IF z = y THEN r.other ELSE m[z]]
    /\ last' = Log("operator_assign_move", x, y, "none")
    /\ UNCHANGED call

\* x = t; and x = std::move(t); for a temporary t.
AssignCopyTemp(x) ==
    \E t \in Temps :
        /\ Running
        /\ m' = [m EXCEPT ![x] = operator_assign_copy(m[x], t).self]
        /\ last' = Log("operator_assign_copy", x, "tmp", "none")
        /\ UNCHANGED call

AssignMoveTemp(x) ==
    \E t \in Temps :
        /\ Running
        /\ m' = [m EXCEPT ![x] = operator_assign_move(m[x], t, FALSE).self]
        /\ last' = Log("operator_assign_move", x, "tmp", "none")
        /\ UNCHANGED call

\* Matrix t(std::move(x)); for a temporary t.
MoveToTemp(x) ==
    /\ Running
    /\ m' = [m EXCEPT ![x] = Matrix_move(m[x]).other]
    /\ last' = Log("Matrix_move", "tmp", x, "none")
    /\ UNCHANGED call

\* --------------------------------------------------------- arithmetic
\* x = x * v; and x = x / v;
MulValue(x) ==
    \E v \in NatVals : Store("operator_mul_value", x, "-", operator_mul_value(m[x], v))
DivValue(x) ==
    \E v \in NatVals : Store("operator_div_value", x, "-", operator_div_value(m[x], v))

MulAssignValue(x) ==
    \E v \in NatVals :
        Member("operator_mul_assign_value", x, "-", operator_mul_assign_value(m[x], v))
DivAssignValue(x) ==
    \E v \in NatVals :
        Member("operator_div_assign_value", x, "-", operator_div_assign_value(m[x], v))

\* x = -x;
Negate(x) == Store("operator_neg", x, "-", operator_neg(m[x]))

\* x = x + other; ... for the operand other, named y in the log.
Add(x, other, y) == Store("operator_add", x, y, operator_add(m[x], other))
Sub(x, other, y) == Store("operator_sub", x, y, operator_sub(m[x], other))
Mul(x, other, y) == Store("operator_mul", x, y, operator_mul(m[x], other))
Div(x, other, y) == Store("operator_div", x, y, operator_div(m[x], other))

AddAssign(x, other, y) == Member("operator_add_assign", x, y, operator_add_assign(m[x], other))
SubAssign(x, other, y) == Member("operator_sub_assign", x, y, operator_sub_assign(m[x], other))
MulAssign(x, other, y) == Member("operator_mul_assign", x, y, operator_mul_assign(m[x], other))
DivAssign(x, other, y) == Member("operator_div_assign", x, y, operator_div_assign(m[x], other))

\* ------------------------------------------------------------ editing
\* x.at(r, c) = v.  A write one element past the storage either faults or
\* lands outside every object.
AtAssign(x) ==
    \E r \in NatArgs, c \in NatArgs, v \in NatVals :
        LET res == at_assign(m[x], r, c, v)
        IN  \/ Member("at_assign", x, "-", res)
            \/ /\ res.err = "undefined"
               /\ Member("at_assign", x, "-", Ok(m[x], v))

SetIdentity(x) == Member("set_identity", x, "-", set_identity(m[x]))
SetZero(x) == Member("set_zero", x, "-", set_zero(m[x]))

SetDiagVector(x) ==
    \E v \in NatLines : Member("set_diag_vector", x, "-", set_diag_vector(m[x], v))
SetDiagList(x) ==
    \E v \in NatLines : Member("set_diag_il", x, "-", set_diag_il(m[x], v))

SetRowValue(x) ==
    \E r \in NatArgs, v \in NatVals : Member("set_row_value", x, "-", set_row_value(m[x], r, v))
SetRowVector(x) ==
    \E r \in NatArgs, v \in NatLines :
        Member("set_row_vector", x, "-", set_row_vector(m[x], r, v))
SetRowList(x) ==
    \E r \in NatArgs, v \in NatLines : Member("set_row_il", x, "-", set_row_il(m[x], r, v))
SetColValue(x) ==
    \E c \in NatArgs, v \in NatVals : Member("set_col_value", x, "-", set_col_value(m[x], c, v))
SetColVector(x) ==
    \E c \in NatArgs, v \in NatLines :
        Member("set_col_vector", x, "-", set_col_vector(m[x], c, v))
SetColList(x) ==
    \E c \in NatArgs, v \in NatLines : Member("set_col_il", x, "-", set_col_il(m[x], c, v))

Transpose(x) == Member("transpose", x, "-", transpose(m[x]))
Pow(x) == \E k \in Powers : Member("pow", x, "-", pow(m[x], k))

SwapRow(x) == \E i \in NatArgs, j \in NatArgs : Member("swap_row", x, "-", swap_row(m[x], i, j))
SwapCol(x) == \E i \in NatArgs, j \in NatArgs : Member("swap_col", x, "-", swap_col(m[x], i, j))
MultRow(x) == \E i \in NatArgs, v \in NatVals : Member("mult_row", x, "-", mult_row(m[x], i, v))
MultCol(x) == \E i \in NatArgs, v \in NatVals : Member("mult_col", x, "-", mult_col(m[x], i, v))
AddRow(x) ==
    \E i \in NatArgs, j \in NatArgs, v \in NatVals :
        Member("add_row", x, "-", add_row(m[x], i, j, v))
AddCol(x) ==
    \E i \in NatArgs, j \in NatArgs, v \in NatVals :
        Member("add_col", x, "-", add_col(m[x], i, j, v))

\* x.max_cols(): a query.  The division by _rows == 0 either faults or
\* yields some value.
MaxCols(x) ==
    \E r \in {max_cols(m[x])} :
        \/ Member("max_cols", x, "-", r)
        \/ r.err = "undefined" /\ Member("max_cols", x, "-", Ok(m[x], 0))

\* ------------------------------------------- the one-object machine
\* Every sequence of public operations on the object "a"; the other operand
\* of a binary operation is "a" itself or a temporary.
Binary(x, other, y) ==
    \/ Add(x, other, y) \/ Sub(x, other, y) \/ Mul(x, other, y) \/ Div(x, other, y)
    \/ AddAssign(x, other, y) \/ SubAssign(x, other, y)
    \/ MulAssign(x, other, y) \/ DivAssign(x, other, y)

Next ==
    \/ NewDefault("a") \/ NewSized("a") \/ NewFilled("a") \/ NewFromVector("a")
    \/ NewFromList("a") \/ NewFromEmptyList("a")
    \/ AssignCopy("a", "a") \/ AssignMove("a", "a")
    \/ AssignCopyTemp("a") \/ AssignMoveTemp("a") \/ MoveToTemp("a")
    \/ MulValue("a") \/ DivValue("a") \/ Negate("a")
    \/ MulAssignValue("a") \/ DivAssignValue("a")
    \/ Binary("a", m["a"], "a")
    \/ \E t \in Temps : Binary("a", t, "tmp")
    \/ AtAssign("a") \/ SetIdentity("a") \/ SetZero("a")
    \/ SetDiagVector("a") \/ SetDiagList("a")
    \/ SetRowValue("a") \/ SetRowVector("a") \/ SetRowList("a")
    \/ SetColValue("a") \/ SetColVector("a") \/ SetColList("a")
    \/ Transpose("a") \/ Pow("a")
    \/ SwapRow("a") \/ SwapCol("a") \/ MultRow("a") \/ MultCol("a")
    \/ AddRow("a") \/ AddCol("a")
    \/ MaxCols("a")

Spec == Init /\ [][Next]_vars

\* ------------------------------------------- the two-object machine
\* Copies and moves between the objects "a" and "b", each of them edited in
\* between: an element written, the object transposed, scaled or added to.
NextCopy ==
    \/ NewFromList("a")
    \/ \E x \in Objs, y \in Objs :
        \/ NewCopy(x, y) \/ NewMove(x, y) \/ AssignCopy(x, y) \/ AssignMove(x, y)
        \/ AddAssign(x, m[y], y)
    \/ \E x \in Objs : AtAssign(x) \/ Transpose(x) \/ MulAssignValue(x)

SpecCopy == Init /\ [][NextCopy]_vars

\* ------------------------------------------- single-call specifications
\* One call with its arguments and its outcome kept in call; elements and
\* scalars are -MaxVal .. MaxVal, sizes reach the capacity ceiling and the
\* std::size_t values of -1 and -2.
ArgVals == Dims \cup {max_rows - 1, max_rows, SizeMod - 2, SizeMod - 1}
IdxVals == Dims \cup {MaxDim + 1, SizeMod - 1}
FlatVecs == UNION {[1 .. n -> Vals] : n \in 0 .. MaxLen}

\* v cut into consecutive rows of the lengths lens.
RECURSIVE Split(_, _)
Split(v, lens) ==
    IF lens = <<>> THEN <<>>
    ELSE <<SubSeq(v, 1, Head(lens))>> \o Split(SubSeq(v, Head(lens) + 1, Len(v)), Tail(lens))

RECURSIVE SumSeq(_)
SumSeq(s) == IF s = <<>> THEN 0 ELSE Head(s) + SumSeq(Tail(s))

LenTuples == UNION {[1 .. n -> Dims] : n \in 1 .. MaxDim + 1}
\* Nested lists of 1 .. MaxDim + 1 rows, each of up to MaxDim values, ragged
\* or not, of up to MaxLen values in all.
Lists == {Split(p[1], p[2]) : p \in {q \in FlatVecs \X LenTuples : SumSeq(q[2]) = Len(q[1])}}
\* The matrices the receiver of the one call is drawn from: the default one,
\* those of the nested lists of up to MaxDim rows, and their transposes.
Built == {Matrix_default.self} \cup {Matrix_il(il).self : il \in {l \in Lists : Len(l) <= MaxDim /\ Matrix_il(l).err = "none"}}
Matrices == Built \cup {transpose(M).self : M \in Built}

Idle == Log("-", "-", "-", "none")

InitCtor ==
    /\ m = [x \in Objs |-> Matrix_default.self]
    /\ last = Idle
    /\ call = NoCall

\* Matrix a(...): the object is there when the constructor returns.
Built_a(res) == [m EXCEPT !["a"] = IF res.err = "none" THEN res.self ELSE @]

CallSized ==
    \E r \in ArgVals, c \in ArgVals :
        LET res == Matrix_rows_cols(r, c)
        IN  /\ call = NoCall
            /\ call' = [op |-> "Matrix_rows_cols", rows |-> r, cols |-> c, err |-> res.err]
            /\ m' = Built_a(res)
            /\ UNCHANGED last

CallFilled ==
    \E r \in ArgVals, c \in ArgVals, v \in Vals :
        LET res == Matrix_value(r, c, v)
        IN  /\ call = NoCall
            /\ call' = [op |-> "Matrix_value", rows |-> r, cols |-> c, value |-> v,
                        err |-> res.err]
            /\ m' = Built_a(res)
            /\ UNCHANGED last

CallVector ==
    \E r \in NatArgs, c \in NatArgs, v \in FlatVecs :
        LET res == Matrix_vector(r, c, v)
        IN  /\ call = NoCall
            /\ call' = [op |-> "Matrix_vector", rows |-> r, cols |-> c, v |-> v,
                        err |-> res.err]
            /\ m' = Built_a(res)
            /\ UNCHANGED last

CallList ==
    \E il \in Lists :
        LET res == Matrix_il(il)
        IN  /\ call = NoCall
            /\ call' = [op |-> "Matrix_il", il |-> il, err |-> res.err]
            /\ m' = Built_a(res)
            /\ UNCHANGED last

\* Matrix a(il) for the empty outer list: a fault, or any _cols.
CallEmptyList ==
    /\ call = NoCall
    /\ Matrix_il(<<>>).err = "undefined"
    /\ \/ call' = [op |-> "Matrix_il", il |-> <<>>, err |-> "crash"] /\ m' = m
       \/ \E g \in Dims :
            /\ call' = [op |-> "Matrix_il", il |-> <<>>, err |-> "none"]
            /\ m' = [m EXCEPT !["a"] = Mat(0, g, <<>>)]
    /\ UNCHANGED last

NextCtor == CallSized \/ CallFilled \/ CallVector \/ CallList \/ CallEmptyList

SpecCtor == InitCtor /\ [][NextCtor]_vars

InitCall ==
    /\ \E A \in Matrices : m = [x \in Objs |-> IF x = "a" THEN A ELSE Matrix_default.self]
    /\ last = Idle
    /\ call = NoCall

\* a.at(r, c): a read outside the storage faults or returns any value.
CallAt ==
    \E r \in IdxVals, c \in IdxVals :
        LET res == at(m["a"], r, c)
        IN  /\ call = NoCall
            /\ \E g \in Vals :
                 call' = [op |-> "at", pre |-> m["a"], row |-> r, col |-> c,
                          err |-> IF res.err = "undefined" THEN "none" ELSE res.err,
                          ret |-> IF res.err = "undefined" THEN g ELSE res.ret]
            /\ UNCHANGED <<m, last>>

CallAtFault ==
    \E r \in IdxVals, c \in IdxVals :
        /\ call = NoCall
        /\ at(m["a"], r, c).err = "undefined"
        /\ call' = [op |-> "at", pre |-> m["a"], row |-> r, col |-> c,
                    err |-> "crash", ret |-> 0]
        /\ UNCHANGED <<m, last>>

\* a.at(r, c) = v, within the storage.
CallAtAssign ==
    \E r \in IdxVals, c \in IdxVals, v \in Vals :
        LET res == at_assign(m["a"], r, c, v)
        IN  /\ call = NoCall
            /\ res.err # "undefined"
            /\ call' = [op |-> "at_assign", pre |-> m["a"], row |-> r, col |-> c,
                        value |-> v, err |-> res.err, ret |-> res.ret]
            /\ m' = [m EXCEPT !["a"] = res.self]
            /\ UNCHANGED last

\* a / v; the quotient is a temporary.
CallDivValue ==
    \E v \in Vals :
        LET res == operator_div_value(m["a"], v)
        IN  /\ call = NoCall
            /\ call' = [op |-> "operator_div_value", pre |-> m["a"], value |-> v,
                        err |-> res.err, ret |-> res.ret]
            /\ m' = [m EXCEPT !["a"] = res.self]
            /\ UNCHANGED last

\* a /= v;
CallDivAssignValue ==
    \E v \in Vals :
        LET res == operator_div_assign_value(m["a"], v)
        IN  /\ call = NoCall
            /\ call' = [op |-> "operator_div_assign_value", pre |-> m["a"], value |-> v,
                        err |-> res.err, ret |-> res.ret]
            /\ m' = [m EXCEPT !["a"] = res.self]
            /\ UNCHANGED last

NextCall == CallAt \/ CallAtFault \/ CallAtAssign \/ CallDivValue \/ CallDivAssignValue

SpecCall == InitCall /\ [][NextCall]_vars

\* a * v; the product is a temporary.
CallMulValue ==
    \E v \in Vals :
        LET res == operator_mul_value(m["a"], v)
        IN  /\ call = NoCall
            /\ call' = [op |-> "operator_mul_value", pre |-> m["a"], value |-> v,
                        err |-> res.err, ret |-> res.ret]
            /\ m' = [m EXCEPT !["a"] = res.self]
            /\ UNCHANGED last

\* a *= v;
CallMulAssignValue ==
    \E v \in Vals :
        LET res == operator_mul_assign_value(m["a"], v)
        IN  /\ call = NoCall
            /\ call' = [op |-> "operator_mul_assign_value", pre |-> m["a"], value |-> v,
                        err |-> res.err, ret |-> res.ret]
            /\ m' = [m EXCEPT !["a"] = res.self]
            /\ UNCHANGED last

\* One scalar multiplication or division of a matrix drawn from Matrices.
NextScalar == CallMulValue \/ CallDivValue \/ CallMulAssignValue \/ CallDivAssignValue

SpecScalar == InitCall /\ [][NextScalar]_vars

\* ------------------------------------------- one editing call
\* The r x c matrix { {1, ..., c}, {c + 1, ...}, ... } of distinct elements.
Ramp(r, c) == Mat(r, c, [k \in 1 .. r * c |-> k])
\* The receivers of an editing call: Matrices and the matrices of distinct
\* elements of up to MaxDim + 1 rows and columns.
Operands == Matrices \cup {Ramp(r, c) : r \in 1 .. MaxDim + 1, c \in 1 .. MaxDim + 1}

InitEdit ==
    /\ \E A \in Operands : m = [x \in Objs |-> IF x = "a" THEN A ELSE Matrix_default.self]
    /\ last = Idle
    /\ call = NoCall

\* a.f(args): the receiver before the call, the arguments and the outcome.
CallEdit(op, args, res) ==
    /\ call = NoCall
    /\ \E r \in {res} :
         /\ call' = [op |-> op, pre |-> m["a"], args |-> args,
                     err |-> IF r.err = "undefined" THEN "crash" ELSE r.err]
         /\ m' = [m EXCEPT !["a"] = r.self]
    /\ UNCHANGED last

CallSetIdentity == CallEdit("set_identity", <<>>, set_identity(m["a"]))

CallSetDiagVector ==
    \E v \in FlatVecs : CallEdit("set_diag_vector", <<v>>, set_diag_vector(m["a"], v))

CallSetDiagList ==
    \E il \in FlatVecs : CallEdit("set_diag_il", <<il>>, set_diag_il(m["a"], il))

CallAddRow ==
    \E i \in IdxVals, j \in IdxVals, v \in Vals :
        CallEdit("add_row", <<i, j, v>>, add_row(m["a"], i, j, v))

CallAddCol ==
    \E i \in IdxVals, j \in IdxVals, v \in Vals :
        CallEdit("add_col", <<i, j, v>>, add_col(m["a"], i, j, v))

CallTranspose == CallEdit("transpose", <<>>, transpose(m["a"]))

\* a.transpose(); a.transpose(); the second call, args the matrix in between.
CallTransposeAgain ==
    /\ call.op = "transpose"
    /\ call' = [call EXCEPT !.op = "transpose_twice", !.args = <<m["a"]>>]
    /\ m' = [m EXCEPT !["a"] = transpose(m["a"]).self]
    /\ UNCHANGED last

CallPow == \E k \in Powers : CallEdit("pow", <<k>>, pow(m["a"], k))

NextEdit ==
    \/ CallSetIdentity \/ CallSetDiagVector \/ CallSetDiagList
    \/ CallAddRow \/ CallAddCol \/ CallTranspose \/ CallTransposeAgain
    \/ CallPow

SpecEdit == InitEdit /\ [][NextEdit]_vars

\* ------------------------------------------- one binary operation
\* a op y for two matrices "a" and "b" drawn from Operands, y being "b" or
\* "a" itself.
InitArith ==
    /\ \E A \in Operands, B \in Operands : m = [x \in Objs |-> IF x = "a" THEN A ELSE B]
    /\ last = Idle
    /\ call = NoCall

\* a.f(y): both operands before the call and the outcome.
CallBinary(op, y, res) ==
    /\ call = NoCall
    /\ \E r \in {res} :
         /\ call' = [op |-> op, pre |-> m["a"], y |-> y, other |-> m[y],
                     err |-> IF r.err = "undefined" THEN "crash" ELSE r.err, ret |-> r.ret]
         /\ m' = [m EXCEPT !["a"] = r.self]
    /\ UNCHANGED last

CallAdd == \E y \in Objs : CallBinary("operator_add", y, operator_add(m["a"], m[y]))
CallSub == \E y \in Objs : CallBinary("operator_sub", y, operator_sub(m["a"], m[y]))
CallMul == \E y \in Objs : CallBinary("operator_mul", y, operator_mul(m["a"], m[y]))
CallDiv == \E y \in Objs : CallBinary("operator_div", y, operator_div(m["a"], m[y]))
CallAddAssign ==
    \E y \in Objs : CallBinary("operator_add_assign", y, operator_add_assign(m["a"], m[y]))
CallSubAssign ==
    \E y \in Objs : CallBinary("operator_sub_assign", y, operator_sub_assign(m["a"], m[y]))
CallMulAssign ==
    \E y \in Objs : CallBinary("operator_mul_assign", y, operator_mul_assign(m["a"], m[y]))
CallDivAssign ==
    \E y \in Objs : CallBinary("operator_div_assign", y, operator_div_assign(m["a"], m[y]))

NextArith ==
    \/ CallAdd \/ CallSub \/ CallMul \/ CallDiv
    \/ CallAddAssign \/ CallSubAssign \/ CallMulAssign \/ CallDivAssign

SpecArith == InitArith /\ [][NextArith]_vars

\* ------------------------------------------- one linear-algebra call
\* Every 3 x 3 matrix over Vals, where determinant() and adjoint() take
\* their general branch.
Squares3 == {Mat(3, 3, d) : d \in [1 .. 9 -> Vals]}
\* The left operands of a division by the object: temporaries of MaxDim
\* rows and 1 .. MaxDim + 1 columns.
Dividends == {Ramp(MaxDim, c) : c \in 1 .. MaxDim + 1}

InitAlg ==
    /\ \E A \in Operands \cup Squares3 :
           m = [x \in Objs |-> IF x = "a" THEN A ELSE Matrix_default.self]
    /\ last = Idle
    /\ call = NoCall

\* a.f(): the receiver before the call, the exception and the value returned.
CallAlg(op, res) ==
    /\ call = NoCall
    /\ \E r \in {res} :
         /\ call' = [op |-> op, pre |-> m["a"],
                     err |-> IF r.err = "undefined" THEN "crash" ELSE r.err, ret |-> r.ret]
         /\ m' = [m EXCEPT !["a"] = r.self]
    /\ UNCHANGED last

CallDeterminant == CallAlg("determinant", determinant(m["a"]))
CallAdjoint == CallAlg("adjoint", adjoint(m["a"]))
CallInverse == CallAlg("inverse", inverse(m["a"]))

\* t / a for a temporary t: the quotient is a temporary too.
CallDivTemp ==
    /\ call = NoCall
    /\ \E t \in Dividends : \E r \in {operator_div(t, m["a"])} :
         call' = [op |-> "operator_div", pre |-> t, other |-> m["a"],
                  err |-> IF r.err = "undefined" THEN "crash" ELSE r.err, ret |-> r.ret]
    /\ UNCHANGED <<m, last>>

\* a * a.adjoint(), a.adjoint() * a and a.determinant(), the first exception
\* thrown ending the expression.
CallAdjointProducts ==
    /\ call = NoCall
    /\ \E adj \in {adjoint(m["a"])} : \E det \in {determinant(m["a"])} :
         IF adj.err # "none" \/ det.err # "none"
         THEN call' = [op |-> "adjoint_products", pre |-> m["a"],
                       err |-> IF adj.err # "none" THEN adj.err ELSE det.err]
         ELSE \E left \in {operator_mul(m["a"], adj.ret)} :
              \E right \in {operator_mul(adj.ret, m["a"])} :
                  call' = [op |-> "adjoint_products", pre |-> m["a"],
                           err |-> IF left.err # "none" THEN left.err ELSE right.err,
                           left |-> left.ret, right |-> right.ret, det |-> det.ret]
    /\ UNCHANGED <<m, last>>

\* a * a.inverse()
CallInverseProduct ==
    /\ call = NoCall
    /\ \E inv \in {inverse(m["a"])} :
         IF inv.err # "none"
         THEN call' = [op |-> "inverse_product", pre |-> m["a"], err |-> inv.err]
         ELSE \E prod \in {operator_mul(m["a"], inv.ret)} :
                  call' = [op |-> "inverse_product", pre |-> m["a"], err |-> prod.err,
                           ret |-> prod.ret]
    /\ UNCHANGED <<m, last>>

NextAlg ==
    \/ CallDeterminant \/ CallAdjoint \/ CallInverse \/ CallDivTemp
    \/ CallAdjointProducts \/ CallInverseProduct

SpecAlg == InitAlg /\ [][NextAlg]_vars

\* ------------------------------------------- one call on a line
\* a.set_row(r, ...) in its three forms: a value, a vector, a list.
CallSetRow ==
    /\ call = NoCall
    /\ \E r \in IdxVals :
         \/ \E v \in Vals : CallEdit("set_row_value", <<r, v>>, set_row_value(m["a"], r, v))
         \/ \E v \in FlatVecs : CallEdit("set_row_vector", <<r, v>>, set_row_vector(m["a"], r, v))
         \/ \E il \in FlatVecs : CallEdit("set_row_il", <<r, il>>, set_row_il(m["a"], r, il))

CallSetCol ==
    /\ call = NoCall
    /\ \E c \in IdxVals :
         \/ \E v \in Vals : CallEdit("set_col_value", <<c, v>>, set_col_value(m["a"], c, v))
         \/ \E v \in FlatVecs : CallEdit("set_col_vector", <<c, v>>, set_col_vector(m["a"], c, v))
         \/ \E il \in FlatVecs : CallEdit("set_col_il", <<c, il>>, set_col_il(m["a"], c, il))

\* a.get_row(r) and a.get_col(c): the vector returned is kept in ret.
CallGetRow ==
    /\ call = NoCall
    /\ \E r \in IdxVals : \E res \in {get_row(m["a"], r)} :
         /\ call' = [op |-> "get_row", pre |-> m["a"], args |-> <<r>>,
                     err |-> res.err, ret |-> res.ret]
         /\ m' = [m EXCEPT !["a"] = res.self]
    /\ UNCHANGED last

CallGetCol ==
    /\ call = NoCall
    /\ \E c \in IdxVals : \E res \in {get_col(m["a"], c)} :
         /\ call' = [op |-> "get_col", pre |-> m["a"], args |-> <<c>>,
                     err |-> res.err, ret |-> res.ret]
         /\ m' = [m EXCEPT !["a"] = res.self]
    /\ UNCHANGED last

SetRowOps == {"set_row_value", "set_row_vector", "set_row_il"}
SetColOps == {"set_col_value", "set_col_vector", "set_col_il"}

\* a.set_row(r, v); a.get_row(r); and the same for a column: the second
\* call, set the form of the first and mid the matrix in between.
CallGetBack ==
    /\ call.op \in SetRowOps \cup SetColOps
    /\ call.err = "none"
    /\ \E res \in {IF call.op \in SetRowOps THEN get_row(m["a"], call.args[1])
                    ELSE get_col(m["a"], call.args[1])} :
         /\ call' = [op |-> "set_get", set |-> call.op, pre |-> call.pre,
                     args |-> call.args, mid |-> m["a"], err |-> res.err, ret |-> res.ret]
         /\ m' = [m EXCEPT !["a"] = res.self]
    /\ UNCHANGED last

CallSwapRow ==
    /\ call = NoCall
    /\ \E i \in IdxVals, j \in IdxVals :
         CallEdit("swap_row", <<i, j>>, swap_row(m["a"], i, j))

CallSwapCol ==
    /\ call = NoCall
    /\ \E i \in IdxVals, j \in IdxVals :
         CallEdit("swap_col", <<i, j>>, swap_col(m["a"], i, j))

\* The same swap once more, args keeping the indices.
CallSwapAgain ==
    /\ call.op \in {"swap_row", "swap_col"}
    /\ call.err = "none"
    /\ \E res \in {IF call.op = "swap_row" THEN swap_row(m["a"], call.args[1], call.args[2])
                    ELSE swap_col(m["a"], call.args[1], call.args[2])} :
         /\ call' = [call EXCEPT !.op = "swap_twice",
                                 !.err = IF res.err = "undefined" THEN "crash" ELSE res.err]
         /\ m' = [m EXCEPT !["a"] = res.self]
    /\ UNCHANGED last

NextLine ==
    \/ CallSetRow \/ CallSetCol \/ CallGetRow \/ CallGetCol \/ CallGetBack
    \/ CallSwapRow \/ CallSwapCol \/ CallSwapAgain

SpecLine == InitEdit /\ [][NextLine]_vars

\* ============================================================= claims
\* C1: in every state reached by any sequence of public operations, failed
\* calls included, each object's storage holds exactly rows * cols elements:
\* vector_size() == rows() * cols().
StorageLength == \A x \in Objs : vector_size(m[x]) = rows(m[x]) * cols(m[x])

\* A 2 x 2 object whose latest call was a successful pow.
StorageLengthWitness ==
    /\ last.op = "pow" /\ last.err = "none"
    /\ rows(m["a"]) = MaxDim /\ cols(m["a"]) = MaxDim
    /\ vector_size(m["a"]) = MaxDim * MaxDim

\* C2: no constructor and no later operation yields a matrix with exactly one
\* of rows(), cols() equal to 0: rows() == 0 <=> cols() == 0 in every state.
ShapeValid == \A x \in Objs : (rows(m[x]) = 0) <=> (cols(m[x]) = 0)

\* C4: a call of an operation that can fail, when it throws, leaves the
\* receiver's rows, cols and elements as they were before the call.
FallibleOps ==
    {"operator_div_assign_value", "operator_add_assign", "operator_sub_assign",
     "operator_mul_assign", "operator_div_assign", "set_identity", "set_diag_vector",
     "set_diag_il", "set_row_value", "set_row_vector", "set_row_il", "set_col_value",
     "set_col_vector", "set_col_il", "swap_row", "swap_col", "mult_row", "mult_col",
     "add_row", "add_col", "pow"}

NoPartialMutation ==
    [][(last'.op \in FallibleOps /\ last'.err \notin {"none", "crash"})
           => m'[last'.x] = m[last'.x]]_vars

\* A singular 2 x 2 matrix with a non-zero element after pow threw on a
\* negative exponent.
NoPartialMutationWitness ==
    /\ last.op = "pow" /\ last.err = "runtime_error"
    /\ rows(m["a"]) = MaxDim
    /\ \E k \in 1 .. vector_size(m["a"]) : m["a"].data[k] # 0

\* C5: after a move construction or move assignment from a distinct source
\* the destination has the source's prior shape and elements, and the source
\* is the empty matrix, equal to a default-constructed one.
MoveTransfers ==
    [][(last'.op \in {"Matrix_move", "operator_assign_move"} /\ last'.x # last'.y)
           => /\ m'[last'.x] = m[last'.y]
              /\ rows(m'[last'.y]) = 0 /\ cols(m'[last'.y]) = 0
              /\ vector_size(m'[last'.y]) = 0
              /\ m'[last'.y] = Matrix_default.self
              /\ operator_eq(m'[last'.y], Matrix_default.self, FALSE)]_vars

\* A 2-row matrix arrived in the destination of a move assignment.
MoveTransfersWitness ==
    /\ last.op = "operator_assign_move" /\ last.x # last.y
    /\ rows(m[last.x]) = MaxDim /\ vector_size(m[last.x]) > 0
    /\ m[last.y] = Empty

\* C6: a copy construction or copy assignment gives the destination the
\* source's shape and elements and leaves the source unchanged; a call on one
\* object leaves the other unchanged; self-assignment, copy or move, changes
\* nothing.
CopyOps == {"Matrix_copy", "operator_assign_copy"}
TransferOps == CopyOps \cup {"Matrix_move", "operator_assign_move"}

CopyIndependent ==
    [][/\ last'.op \in CopyOps
            => m'[last'.x] = m[last'.y] /\ m'[last'.y] = m[last'.y]
       /\ (last'.op \in {"operator_assign_copy", "operator_assign_move"} /\ last'.x = last'.y)
            => m' = m
       /\ last'.op \notin TransferOps
            => \A z \in Objs \ {last'.x} : m'[z] = m[z]]_vars

\* Two equal 2-row objects right after a copy assignment between them.
CopyIndependentWitness ==
    /\ last.op = "operator_assign_copy" /\ last.x # last.y
    /\ m["a"] = m["b"] /\ rows(m["a"]) = MaxDim /\ vector_size(m["a"]) > 0

\* C3: at(r, c) succeeds and returns the element at offset r * cols + c when
\* r < rows and c < cols, and throws std::out_of_range for every other pair.
AtChecked ==
    call.op = "at" =>
        IF call.row < rows(call.pre) /\ call.col < cols(call.pre)
        THEN /\ call.err = "none"
             /\ call.ret = call.pre.data[call.row * cols(call.pre) + call.col + 1]
        ELSE call.err = "out_of_range"

\* C7: Matrix(rows, cols) gives rows * cols zeros for positive sizes below
\* the ceilings and the empty matrix for (0, 0); it throws
\* std::invalid_argument for (0, cols != 0), for (rows > 0, 0) and for a size
\* at or above the maximum.
SizedCtor ==
    call.op = "Matrix_rows_cols" =>
        LET r == call.rows
            c == call.cols
        IN  /\ (r > 0 /\ c > 0 /\ r < max_rows /\ c < max_rows \div r)
                => call.err = "none" /\ m["a"] = Mat(r, c, [k \in 1 .. r * c |-> 0])
            /\ (r = 0 /\ c = 0) => call.err = "none" /\ m["a"] = Mat(0, 0, <<>>)
            /\ ((r = 0 /\ c # 0) \/ (r > 0 /\ c = 0) \/ r >= max_rows \/ c >= max_rows)
                => call.err = "invalid_argument"

\* Matrix(2, 0) was rejected.
SizedCtorWitness ==
    /\ call.op = "Matrix_rows_cols" /\ call.rows = MaxDim /\ call.cols = 0
    /\ call.err = "invalid_argument"

\* C8: Matrix(rows, cols, v) of a valid shape holds v in row-major order,
\* element(r, c) == v[r * cols + c], when v has rows * cols values, and throws
\* std::invalid_argument for every other length of v.
ValidShape(r, c) == (r = 0 /\ c = 0) \/ (r > 0 /\ c > 0 /\ r < max_rows /\ c < max_rows \div r)

VectorCtor ==
    (call.op = "Matrix_vector" /\ ValidShape(call.rows, call.cols)) =>
        IF Len(call.v) = call.rows * call.cols
        THEN /\ call.err = "none"
             /\ rows(m["a"]) = call.rows /\ cols(m["a"]) = call.cols
             /\ \A r \in 0 .. call.rows - 1 : \A c \in 0 .. call.cols - 1 :
                    Elem(m["a"], r, c) = call.v[r * call.cols + c + 1]
        ELSE call.err = "invalid_argument"

\* A 2 x 2 matrix built from four values, not all equal.
VectorCtorWitness ==
    /\ call.op = "Matrix_vector" /\ call.err = "none"
    /\ call.rows = MaxDim /\ call.cols = MaxDim
    /\ \E k \in 1 .. Len(call.v) : call.v[k] # call.v[1]

\* C9: Matrix(il) of a non-empty list has rows() the outer length, cols() the
\* length of the first row and element(r, c) the c-th value of the r-th row;
\* it throws std::invalid_argument when any row's length differs from the
\* first row's, wherever that row stands.
ListCtor ==
    (call.op = "Matrix_il" /\ Len(call.il) > 0) =>
        IF \A i \in 1 .. Len(call.il) : Len(call.il[i]) = Len(call.il[1])
        THEN /\ call.err = "none"
             /\ rows(m["a"]) = Len(call.il) /\ cols(m["a"]) = Len(call.il[1])
             /\ \A r \in 0 .. Len(call.il) - 1 : \A c \in 0 .. Len(call.il[1]) - 1 :
                    Elem(m["a"], r, c) = call.il[r + 1][c + 1]
        ELSE call.err = "invalid_argument"

\* A list of three rows whose last row alone differs in length was rejected.
ListCtorWitness ==
    /\ call.op = "Matrix_il" /\ Len(call.il) = MaxDim + 1
    /\ \A i \in 1 .. MaxDim : Len(call.il[i]) = Len(call.il[1])
    /\ Len(call.il[MaxDim + 1]) # Len(call.il[1])
    /\ call.err = "invalid_argument"

\* C10: A / 0 and A /= 0 throw std::invalid_argument for every matrix A, the
\* empty one included, and leave A's shape and elements unchanged.
DivisionByZero ==
    (call.op \in {"operator_div_value", "operator_div_assign_value"} /\ call.value = 0)
        => call.err = "invalid_argument" /\ m["a"] = call.pre

\* A /= 0 was rejected for the empty matrix.
DivisionByZeroWitness ==
    /\ call.op = "operator_div_assign_value" /\ call.value = 0
    /\ call.pre = Matrix_default.self
    /\ call.err = "invalid_argument" /\ m["a"] = call.pre

\* C11: A * v and, for v != 0, A / v have A's shape and the elements
\* A(i,j) * v and A(i,j) / v (the quotient truncated toward zero); A * 0 is
\* all zeros; the binary forms leave A unchanged and A *= v, A /= v leave A
\* equal to what the binary form returns.
Truncated(q, x, v) ==
    LET r == x - q * v
    IN  Abs(r) < Abs(v) /\ (r = 0 \/ (r < 0) = (x < 0))

ScalarElementwise ==
    (call.op \in {"operator_mul_value", "operator_div_value", "operator_mul_assign_value",
                  "operator_div_assign_value"}
       /\ (call.op \in {"operator_div_value", "operator_div_assign_value"} => call.value # 0))
        => /\ call.err = "none"
           /\ rows(call.ret) = rows(call.pre) /\ cols(call.ret) = cols(call.pre)
           /\ vector_size(call.ret) = vector_size(call.pre)
           /\ \A i \in 0 .. rows(call.pre) - 1 : \A j \in 0 .. cols(call.pre) - 1 :
                  IF call.op \in {"operator_mul_value", "operator_mul_assign_value"}
                  THEN Elem(call.ret, i, j) = Elem(call.pre, i, j) * call.value
                  ELSE Truncated(Elem(call.ret, i, j), Elem(call.pre, i, j), call.value)
           /\ (call.op = "operator_mul_value" /\ call.value = 0)
                  => call.ret = Mat(rows(call.pre), cols(call.pre),
                                    [k \in 1 .. rows(call.pre) * cols(call.pre) |-> 0])
           /\ IF call.op \in {"operator_mul_value", "operator_div_value"}
              THEN m["a"] = call.pre
              ELSE m["a"] = call.ret

\* A 2 x 2 matrix with a non-zero last element after A *= -1.
ScalarElementwiseWitness ==
    /\ call.op = "operator_mul_assign_value" /\ call.value = 0 - 1
    /\ rows(call.pre) = MaxDim /\ cols(call.pre) = MaxDim
    /\ Elem(call.pre, MaxDim - 1, MaxDim - 1) # 0
    /\ m["a"] = call.ret

\* C12: set_identity() throws std::invalid_argument on a non-square matrix;
\* on an n x n matrix (n >= 0), whatever it held, it leaves an n x n matrix
\* with 1 where i == j and 0 where i != j.
IdentitySet ==
    call.op = "set_identity" =>
        IF rows(call.pre) # cols(call.pre)
        THEN call.err = "invalid_argument"
        ELSE /\ call.err = "none"
             /\ rows(m["a"]) = rows(call.pre) /\ cols(m["a"]) = cols(call.pre)
             /\ vector_size(m["a"]) = rows(call.pre) * cols(call.pre)
             /\ \A i \in 0 .. rows(call.pre) - 1 : \A j \in 0 .. cols(call.pre) - 1 :
                    Elem(m["a"], i, j) = IF i = j THEN 1 ELSE 0

\* The 3 x 3 matrix of nine distinct elements became the identity.
IdentitySetWitness ==
    /\ call.op = "set_identity" /\ call.err = "none"
    /\ call.pre = Ramp(MaxDim + 1, MaxDim + 1)
    /\ Elem(m["a"], MaxDim, MaxDim) = 1 /\ Elem(m["a"], MaxDim, 0) = 0

\* C13: set_diag(values), vector and list forms, throws std::invalid_argument
\* when the matrix is not square and when it is square but values has not
\* rows() elements (fewer or more); otherwise the shape stays and afterwards
\* element(i, i) == values[i] and element(i, j) == 0 for i != j.
DiagSet ==
    call.op \in {"set_diag_vector", "set_diag_il"} =>
        LET values == call.args[1]
        IN  IF rows(call.pre) # cols(call.pre) \/ Len(values) # rows(call.pre)
            THEN call.err = "invalid_argument"
            ELSE /\ call.err = "none"
                 /\ rows(m["a"]) = rows(call.pre) /\ cols(m["a"]) = cols(call.pre)
                 /\ vector_size(m["a"]) = rows(call.pre) * cols(call.pre)
                 /\ \A i \in 0 .. rows(call.pre) - 1 : \A j \in 0 .. cols(call.pre) - 1 :
                        Elem(m["a"], i, j) = IF i = j THEN values[i + 1] ELSE 0

\* The 3 x 3 matrix of distinct elements took a diagonal of three values
\* through the vector form.
DiagSetWitness ==
    /\ call.op = "set_diag_vector" /\ call.err = "none"
    /\ call.pre = Ramp(MaxDim + 1, MaxDim + 1)
    /\ Len(call.args[1]) = MaxDim + 1 /\ call.args[1][MaxDim + 1] # 0
    /\ Elem(m["a"], MaxDim, MaxDim) = call.args[1][MaxDim + 1]
    /\ Elem(m["a"], 0, MaxDim) = 0

\* C14: A + B and A - B throw std::invalid_argument unless A and B have the
\* same rows and cols; otherwise the result has A's shape and the elements
\* A(i,j) + B(i,j), A(i,j) - B(i,j), neither operand is modified, and
\* A += B, A -= B leave A equal to that result, also when B is A itself.
SumOps == {"operator_add", "operator_sub", "operator_add_assign", "operator_sub_assign"}

AddSub ==
    call.op \in SumOps =>
        LET A == call.pre
            B == call.other
            plus == call.op \in {"operator_add", "operator_add_assign"}
            inPlace == call.op \in {"operator_add_assign", "operator_sub_assign"}
        IN  IF rows(A) # rows(B) \/ cols(A) # cols(B)
            THEN call.err = "invalid_argument"
            ELSE /\ call.err = "none"
                 /\ rows(call.ret) = rows(A) /\ cols(call.ret) = cols(A)
                 /\ vector_size(call.ret) = rows(A) * cols(A)
                 /\ \A i \in 0 .. rows(A) - 1 : \A j \in 0 .. cols(A) - 1 :
                        Elem(call.ret, i, j) =
                            IF plus THEN Elem(A, i, j) + Elem(B, i, j)
                            ELSE Elem(A, i, j) - Elem(B, i, j)
                 /\ m["a"] = IF inPlace THEN call.ret ELSE A
                 /\ call.y = "b" => m["b"] = B

\* A - B of two equal 2 x 3 matrices of distinct elements gave zeros.
AddSubWitness ==
    /\ call.op = "operator_sub" /\ call.y = "b" /\ call.err = "none"
    /\ call.pre = Ramp(MaxDim, MaxDim + 1) /\ call.other = Ramp(MaxDim, MaxDim + 1)
    /\ Elem(call.ret, MaxDim - 1, MaxDim) = 0

\* C15: A * B throws std::invalid_argument unless A.cols == B.rows; otherwise
\* the result has shape A.rows x B.cols and cell (i, j) is the sum over k of
\* A(i,k) * B(k,j); A *= B leaves A equal to A * B of A's prior value, also
\* when B is A itself.
RECURSIVE SumProducts(_, _, _, _, _)
SumProducts(A, B, i, j, n) ==
    IF n = 0 THEN 0
    ELSE SumProducts(A, B, i, j, n - 1) + Elem(A, i, n - 1) * Elem(B, n - 1, j)

MatrixProduct ==
    call.op \in {"operator_mul", "operator_mul_assign"} =>
        LET A == call.pre
            B == call.other
        IN  IF cols(A) # rows(B)
            THEN call.err = "invalid_argument"
            ELSE /\ call.err = "none"
                 /\ rows(call.ret) = rows(A) /\ cols(call.ret) = cols(B)
                 /\ vector_size(call.ret) = rows(A) * cols(B)
                 /\ \A i \in 0 .. rows(A) - 1 : \A j \in 0 .. cols(B) - 1 :
                        Elem(call.ret, i, j) = SumProducts(A, B, i, j, cols(A))
                 /\ m["a"] = IF call.op = "operator_mul_assign" THEN call.ret ELSE A

\* C16: add_row(dst, src, k) and add_col(dst, src, k) with both indices
\* inside the extent: for dst != src each element of line dst becomes
\* old_dst[i] + k * src[i], for dst == src line dst is scaled by k + 1, every
\* element outside line dst is unchanged, and k == 0 leaves the matrix
\* identical; an index outside [0, extent) throws std::out_of_range.
LineAdded ==
    call.op \in {"add_row", "add_col"} =>
        LET A == call.pre
            dst == call.args[1]
            src == call.args[2]
            k == call.args[3]
            byRow == call.op = "add_row"
            extent == IF byRow THEN rows(A) ELSE cols(A)
            line(i, j) == IF byRow THEN i ELSE j
            from(i, j) == IF byRow THEN Elem(A, src, j) ELSE Elem(A, i, src)
        IN  IF ~(dst < extent /\ src < extent)
            THEN call.err = "out_of_range"
            ELSE /\ call.err = "none"
                 /\ rows(m["a"]) = rows(A) /\ cols(m["a"]) = cols(A)
                 /\ vector_size(m["a"]) = vector_size(A)
                 /\ \A i \in 0 .. rows(A) - 1 : \A j \in 0 .. cols(A) - 1 :
                        Elem(m["a"], i, j) =
                            IF line(i, j) # dst THEN Elem(A, i, j)
                            ELSE IF dst # src THEN Elem(A, i, j) + k * from(i, j)
                            ELSE Elem(A, i, j) * (k + 1)
                 /\ k = 0 => m["a"] = A

\* C17: transpose() of an r x c matrix (square or not, 1 x n, n x 1 and
\* empty included) leaves a c x r matrix with new element(i, j) == old
\* element(j, i); transpose() applied twice restores shape and elements.
Transposed ==
    /\ call.op = "transpose" =>
          /\ call.err = "none"
          /\ rows(m["a"]) = cols(call.pre) /\ cols(m["a"]) = rows(call.pre)
          /\ vector_size(m["a"]) = vector_size(call.pre)
          /\ \A i \in 0 .. cols(call.pre) - 1 : \A j \in 0 .. rows(call.pre) - 1 :
                 Elem(m["a"], i, j) = Elem(call.pre, j, i)
    /\ call.op = "transpose_twice" => m["a"] = call.pre

\* The 2 x 3 matrix of distinct elements, transposed twice, with the 3 x 2
\* matrix in between.
TransposedWitness ==
    /\ call.op = "transpose_twice"
    /\ call.pre = Ramp(MaxDim, MaxDim + 1)
    /\ rows(call.args[1]) = MaxDim + 1 /\ cols(call.args[1]) = MaxDim
    /\ Elem(call.args[1], MaxDim, 0) = Elem(call.pre, 0, MaxDim)
    /\ m["a"] = call.pre

\* C18: determinant() throws std::invalid_argument on a non-square matrix;
\* it returns the single element of a 1 x 1 matrix, a*d - b*c of a 2 x 2
\* matrix and, for 3 x 3, the first-row sum of element(0,j) * cofactor(0,j),
\* equal to the permutation-sum determinant; the matrix is not modified.
PermutationSum3(A) ==
    Elem(A, 0, 0) * Elem(A, 1, 1) * Elem(A, 2, 2)
      + Elem(A, 0, 1) * Elem(A, 1, 2) * Elem(A, 2, 0)
      + Elem(A, 0, 2) * Elem(A, 1, 0) * Elem(A, 2, 1)
      - Elem(A, 0, 2) * Elem(A, 1, 1) * Elem(A, 2, 0)
      - Elem(A, 0, 1) * Elem(A, 1, 0) * Elem(A, 2, 2)
      - Elem(A, 0, 0) * Elem(A, 1, 2) * Elem(A, 2, 1)

DeterminantValue ==
    call.op = "determinant" =>
        LET A == call.pre
        IN  /\ m["a"] = A
            /\ rows(A) # cols(A) => call.err = "invalid_argument"
            /\ (rows(A) = 1 /\ cols(A) = 1) => call.err = "none" /\ call.ret = Elem(A, 0, 0)
            /\ (rows(A) = 2 /\ cols(A) = 2)
                 => /\ call.err = "none"
                    /\ call.ret = Elem(A, 0, 0) * Elem(A, 1, 1) - Elem(A, 0, 1) * Elem(A, 1, 0)
            /\ (rows(A) = 3 /\ cols(A) = 3)
                 => /\ call.err = "none"
                    /\ call.ret = Elem(A, 0, 0) * cofactor(A, 0, 0).ret
                                    + Elem(A, 0, 1) * cofactor(A, 0, 1).ret
                                    + Elem(A, 0, 2) * cofactor(A, 0, 2).ret
                    /\ call.ret = PermutationSum3(A)

\* A 3 x 3 matrix without a zero in its first row and of determinant 2.
DeterminantValueWitness ==
    /\ call.op = "determinant" /\ call.err = "none"
    /\ rows(call.pre) = 3 /\ cols(call.pre) = 3
    /\ \A j \in 0 .. 2 : Elem(call.pre, 0, j) # 0
    /\ call.ret = 2

\* C19: adjoint() of a square matrix of size n in 1 .. 3 is the n x n
\* transpose of the cofactor matrix, adjoint()(i, j) == cofactor(j, i) with
\* cofactor(r, c) == (-1)^(r + c) * determinant(minor(r, c)); on a
\* non-square matrix it throws std::invalid_argument.
AdjointCofactors ==
    call.op = "adjoint" =>
        LET A == call.pre
            n == rows(A)
        IN  /\ rows(A) # cols(A) => call.err = "invalid_argument"
            /\ (rows(A) = cols(A) /\ n \in 1 .. 3)
                 => /\ call.err = "none"
                    /\ rows(call.ret) = n /\ cols(call.ret) = n
                    /\ vector_size(call.ret) = n * n
                    /\ \A i \in 0 .. n - 1 : \A j \in 0 .. n - 1 :
                           /\ cofactor(A, j, i).err = "none"
                           /\ Elem(call.ret, i, j) = cofactor(A, j, i).ret

\* C20: inverse() throws std::invalid_argument on a non-square matrix,
\* std::runtime_error on a square matrix whose determinant() is 0, and
\* otherwise returns the matrix of the entries adjoint()(i, j) /
\* determinant() in int division; the receiver is not modified.  A / B is
\* A * inverse(B) and fails with the same errors.
InverseValue ==
    /\ call.op = "inverse" =>
          LET A == call.pre
              n == rows(A)
              det == determinant(A).ret
          IN  /\ m["a"] = A
              /\ IF rows(A) # cols(A) THEN call.err = "invalid_argument"
                 ELSE IF det = 0 THEN call.err = "runtime_error"
                 ELSE /\ call.err = "none"
                      /\ rows(call.ret) = n /\ cols(call.ret) = n
                      /\ vector_size(call.ret) = n * n
                      /\ \A i \in 0 .. n - 1 : \A j \in 0 .. n - 1 :
                             Truncated(Elem(call.ret, i, j), Elem(adjoint(A).ret, i, j), det)
    /\ call.op = "operator_div" =>
          LET A == call.pre
              B == call.other
          IN  /\ m["a"] = B
              /\ IF rows(B) # cols(B) THEN call.err = "invalid_argument"
                 ELSE IF determinant(B).ret = 0 THEN call.err = "runtime_error"
                 ELSE \E prod \in {operator_mul(A, inverse(B).ret)} :
                          /\ call.err = prod.err
                          /\ prod.err = "none" => call.ret = prod.ret

\* A 3 x 3 matrix of determinant 2 was inverted and the quotient of an
\* odd adjoint entry was truncated.
InverseValueWitness ==
    /\ call.op = "inverse" /\ call.err = "none"
    /\ rows(call.pre) = 3 /\ determinant(call.pre).ret = 2
    /\ \E i \in 0 .. 2 : \E j \in 0 .. 2 :
           /\ Elem(adjoint(call.pre).ret, i, j) = 0 - 1
           /\ Elem(call.ret, i, j) = 0

\* C21: pow(k) throws std::invalid_argument on a non-square matrix; on a
\* square A, pow(0) leaves the identity of A's size, pow(k) for k > 0 the
\* product of k copies of A, pow(k) for k < 0 the product of |k| copies of
\* inverse(A), and throws std::runtime_error leaving A unchanged when
\* determinant(A) == 0.
RECURSIVE Copies(_, _)
Copies(B, n) == IF n = 1 THEN B ELSE operator_mul(Copies(B, n - 1), B).ret

PowerValue ==
    call.op = "pow" =>
        LET A == call.pre
            k == call.args[1]
        IN  IF rows(A) # cols(A) THEN call.err = "invalid_argument" /\ m["a"] = A
            ELSE IF k = 0
            THEN /\ call.err = "none"
                 /\ m["a"] = Mat(rows(A), rows(A),
                                 [t \in 1 .. rows(A) * rows(A) |->
                                     IF (t - 1) \div rows(A) = (t - 1) % rows(A) THEN 1 ELSE 0])
            ELSE IF k > 0
            THEN call.err = "none" /\ m["a"] = Copies(A, k) /\ (k = 1 => m["a"] = A)
            ELSE IF determinant(A).ret = 0
            THEN call.err = "runtime_error" /\ m["a"] = A
            ELSE call.err = "none" /\ m["a"] = Copies(inverse(A).ret, 0 - k)

\* { {1, 2}, {3, 4} } after pow(-2): the square of its inverse.
PowerValueWitness ==
    /\ call.op = "pow" /\ call.err = "none" /\ call.args[1] = 0 - 2
    /\ call.pre = Ramp(2, 2)
    /\ m["a"] # inverse(call.pre).ret /\ m["a"] # call.pre

\* C22: set_row / set_col (value, vector and list forms) and get_row /
\* get_col throw std::out_of_range for an index outside [0, extent) and the
\* vector and list forms std::invalid_argument for a length other than the
\* opposite dimension (either of the two when both apply); on success the
\* named line holds the value, or values[i] at position i, every other
\* element and the shape are unchanged; get_row(r) / get_col(c) right after
\* set_row(r, v) / set_col(c, v) returns v and leaves the matrix as it was.
LineValues(op, args, n) ==
    IF op \in {"set_row_value", "set_col_value"} THEN [t \in 1 .. n |-> args[2]] ELSE args[2]

LinesSetAndRead ==
    /\ call.op \in SetRowOps \cup SetColOps =>
          LET A == call.pre
              byRow == call.op \in SetRowOps
              idx == call.args[1]
              extent == IF byRow THEN rows(A) ELSE cols(A)
              opposite == IF byRow THEN cols(A) ELSE rows(A)
              values == LineValues(call.op, call.args, opposite)
              idxBad == ~(idx < extent)
              lenBad == Len(values) # opposite
          IN  IF idxBad /\ lenBad THEN call.err \in {"out_of_range", "invalid_argument"}
              ELSE IF idxBad THEN call.err = "out_of_range"
              ELSE IF lenBad THEN call.err = "invalid_argument"
              ELSE /\ call.err = "none"
                   /\ rows(m["a"]) = rows(A) /\ cols(m["a"]) = cols(A)
                   /\ vector_size(m["a"]) = vector_size(A)
                   /\ \A i \in 0 .. rows(A) - 1 : \A j \in 0 .. cols(A) - 1 :
                          Elem(m["a"], i, j) =
                              IF byRow THEN (IF i = idx THEN values[j + 1] ELSE Elem(A, i, j))
                              ELSE (IF j = idx THEN values[i + 1] ELSE Elem(A, i, j))
    /\ call.op \in {"get_row", "get_col"} =>
          LET A == call.pre
              byRow == call.op = "get_row"
              idx == call.args[1]
          IN  /\ m["a"] = A
              /\ IF ~(idx < (IF byRow THEN rows(A) ELSE cols(A)))
                 THEN call.err = "out_of_range"
                 ELSE /\ call.err = "none"
                      /\ Len(call.ret) = (IF byRow THEN cols(A) ELSE rows(A))
                      /\ \A t \in 1 .. Len(call.ret) :
                             call.ret[t] = IF byRow THEN Elem(A, idx, t - 1)
                                           ELSE Elem(A, t - 1, idx)
    /\ call.op = "set_get" =>
          /\ call.err = "none"
          /\ call.ret = LineValues(call.set, call.args,
                                   IF call.set \in SetRowOps THEN cols(call.pre)
                                   ELSE rows(call.pre))
          /\ m["a"] = call.mid

\* C23, as stated: at(r, c) throws std::out_of_range only for r > rows or
\* c > cols; an index pair with r == rows or c == cols (the other index
\* within its extent) is accepted, and every accepted pair of that kind
\* addresses an offset r * cols + c outside the storage [0, rows * cols).
AtBoundaryOutside ==
    call.op = "at" =>
        LET A == call.pre
            r == call.row
            c == call.col
        IN  /\ (call.err = "out_of_range") <=> (r > rows(A) \/ c > cols(A))
            /\ ((r = rows(A) \/ c = cols(A)) /\ r <= rows(A) /\ c <= cols(A))
                 => ~(r * cols(A) + c < rows(A) * cols(A))

\* C23, amended: at(r, c) throws std::out_of_range only for r > rows or
\* c > cols.  An accepted pair with r == rows addresses an offset outside
\* the storage.  An accepted pair with c == cols and r < rows addresses the
\* offset (r + 1) * cols: the first element of the next row, which at
\* returns, when r + 1 < rows and cols > 0, and outside the storage
\* otherwise.
AtBoundary ==
    call.op = "at" =>
        LET A == call.pre
            r == call.row
            c == call.col
            off == r * cols(A) + c
        IN  /\ (call.err = "out_of_range") <=> (r > rows(A) \/ c > cols(A))
            /\ (r = rows(A) /\ c <= cols(A))
                 => ~(off < vector_size(A)) /\ call.err \in {"none", "crash"}
            /\ (c = cols(A) /\ r < rows(A))
                 => /\ off = (r + 1) * cols(A)
                    /\ IF r + 1 < rows(A) /\ cols(A) > 0
                       THEN /\ off < vector_size(A)
                            /\ call.err = "none"
                            /\ call.ret = Elem(A, r + 1, 0)
                       ELSE ~(off < vector_size(A)) /\ call.err \in {"none", "crash"}

\* at(0, 2) on a 2 x 2 matrix returned the non-zero element (1, 0).
AtBoundaryWitness ==
    /\ call.op = "at" /\ call.err = "none"
    /\ rows(call.pre) = MaxDim /\ cols(call.pre) = MaxDim
    /\ call.row = 0 /\ call.col = MaxDim
    /\ call.ret = Elem(call.pre, 1, 0) /\ call.ret # 0

\* C24: swap_row(a, b) and swap_col(a, b) throw std::out_of_range for an
\* index outside [0, extent), also when a == b; with valid indices the two
\* lines are exchanged element by element and every other element is
\* unchanged; a == b leaves the matrix unchanged; the same swap applied
\* twice restores the original matrix.
LinesSwapped ==
    /\ call.op \in {"swap_row", "swap_col"} =>
          LET A == call.pre
              byRow == call.op = "swap_row"
              a == call.args[1]
              b == call.args[2]
              extent == IF byRow THEN rows(A) ELSE cols(A)
              to(k) == IF k = a THEN b ELSE IF k = b THEN a ELSE k
          IN  IF ~(a < extent /\ b < extent)
              THEN call.err = "out_of_range" /\ m["a"] = A
              ELSE /\ call.err = "none"
                   /\ rows(m["a"]) = rows(A) /\ cols(m["a"]) = cols(A)
                   /\ vector_size(m["a"]) = vector_size(A)
                   /\ \A i \in 0 .. rows(A) - 1 : \A j \in 0 .. cols(A) - 1 :
                          Elem(m["a"], i, j) = IF byRow THEN Elem(A, to(i), j)
                                               ELSE Elem(A, i, to(j))
                   /\ a = b => m["a"] = A
    /\ call.op = "swap_twice" => call.err = "none" /\ m["a"] = call.pre

\* C25: max_cols() yields a defined ceiling in every reachable state of a
\* matrix, the empty matrix of a default construction, of Matrix(0, 0) or of
\* a move included: max_rows() / rows() never divides by zero.
MaxColsDefined ==
    last.op = "max_cols" => max_cols(m[last.x]).err = "none" /\ last.err = "none"

\* C26: for every square integer matrix A of size n in 1 .. 3,
\* A * A.adjoint() == A.adjoint() * A == determinant(A) * I_n, and
\* A * A.inverse() == I_n when determinant(A) is 1 or -1.
ScaledIdentity(n, d) ==
    Mat(n, n, [t \in 1 .. n * n |-> IF (t - 1) \div n = (t - 1) % n THEN d ELSE 0])

AdjugateIdentity ==
    /\ (/\ call.op = "adjoint_products"
        /\ rows(call.pre) = cols(call.pre) /\ rows(call.pre) \in 1 .. 3)
          => /\ call.err = "none"
             /\ call.left = ScaledIdentity(rows(call.pre), call.det)
             /\ call.right = ScaledIdentity(rows(call.pre), call.det)
    /\ (/\ call.op = "inverse_product"
        /\ rows(call.pre) = cols(call.pre) /\ rows(call.pre) \in 1 .. 3
        /\ determinant(call.pre).ret \in {1, 0 - 1})
          => /\ call.err = "none"
             /\ call.ret = ScaledIdentity(rows(call.pre), 1)

\* A 3 x 3 matrix of determinant -1 with at most three zero elements,
\* multiplied by its inverse.
AdjugateIdentityWitness ==
    /\ call.op = "inverse_product" /\ call.err = "none"
    /\ rows(call.pre) = 3 /\ determinant(call.pre).ret = 0 - 1
    /\ Cardinality({k \in 1 .. 9 : call.pre.data[k] # 0}) >= 6
    /\ call.ret = ScaledIdentity(3, 1)

====
